---- MODULE Spec2Model ----
(***************************************************************************)
(* Tuning engine of the ESWIN SDHCI-SDIO host driver                       *)
(* (drivers/mmc/host/sdhci-of-eswin-sdio.c):                               *)
(*   eswin_sdhci_sdio_config_phy_delay, eswin_sdhci_sdio_reset,            *)
(*   eswin_sdhci_sdio_delay_tuning, eswin_sdhci_sdio_phase_code_tuning,    *)
(*   eswin_sdhci_sdio_executing_tuning.                                    *)
(* The program is sequential; pc holds the source line about to execute.   *)
(***************************************************************************)
EXTENDS Integers, Sequences, FiniteSets

(* ------------------------------------------------------------------ *)
(* Ranges.  The header that sets the two scan ranges is not part of    *)
(* the sources at hand; the model scans shortened ranges.              *)
(* ------------------------------------------------------------------ *)
PHY_DELAY_CODE_MAX == 23

MAX_PHASE_CODE == 5

\* the pass/fail oracles explored have at most MaxRuns passing runs per scan,
\* two successive runs being separated by at most MaxGap failing codes
MaxRuns == 2

MaxGap == 1

DELAY_RANGE_THRESHOLD == 20

\* number of bits of the delay-line data field
DelayLineBits == 5

\* delay &= PHY_CLK_MAX_DELAY_MASK
PHY_CLK_MAX_DELAY_MASK == 2 ^ DelayLineBits - 1

PHY_UPDATE_DELAY_CODE == 1

EIO == 5

EILSEQ == 84

\* non-zero statuses mmc_send_tuning can return
TuningErrors == {-EIO, -EILSEQ}

\* values of the device-tree properties explored at attach
DelayCodeProps == {7, 40}

\* (a u32 is held as its two 16-bit halves <<high, low>>)
PhaseCodeProps == {<<0, 0>>, <<0, 3>>, <<1, 3>>, <<65535, 65535>>}

(* ------------------------------------------------------------------ *)
(* Pure helpers                                                        *)
(* ------------------------------------------------------------------ *)
\* C integer division (truncation toward zero)
CDiv(a, b) == IF a >= 0 THEN a \div b ELSE -((-a) \div b)

\* delay &= PHY_CLK_MAX_DELAY_MASK (the mask is 2^k - 1)
MaskDelay(d) == d % (PHY_CLK_MAX_DELAY_MASK + 1)

\* a u32 <<high, low>> assigned to an int (eswin_sdio_priv->phase_code = val)
ToInt(v) == (IF v[1] >= 32768 THEN v[1] - 65536 ELSE v[1]) * 65536 + v[2]

\* value latched by a 16-bit register write (sdhci_writew)
W16(v) == v % 65536

\* value latched by an 8-bit register write (sdhci_writeb)
W8(v) == v % 256

VARIABLES
  pc,               \* source line about to execute, "idle" or "done"
  clk,              \* card clock enabled (SDHCI_CLOCK_CARD_EN)
  cnfg,             \* PHY_SDCLKDL_CNFG_R
  dc,               \* PHY_SDCLKDL_DC_R, the delay line
  at_stat,          \* VENDOR_AT_SATA_R, the phase register
  tuned_clk,        \* SDHCI_CTRL_TUNED_CLK bit of SDHCI_HOST_CONTROL2
  sw_tune,          \* SW_TUNE_ENABLE bit of VENDOR_AT_CTRL_R
  cmd_data,         \* SDHCI_CMD_DATA
  cd_dirty,         \* command/data logic left unclean by a failed command
  enable_sw_tuning, \* eswin_sdio_priv->enable_sw_tuning
  priv_phase_code,  \* eswin_sdio_priv->phase_code
  phy_delay_code,   \* eswin_sdhci->phy.delay_code
  cpd_delay,        \* eswin_sdhci_sdio_config_phy_delay: parameter delay
  cpd_ret,          \* eswin_sdhci_sdio_config_phy_delay: return address
  i, delay, delay_min, delay_max, delay_range, dt_ret, \* locals of delay_tuning
  phase_code, code_min, code_max, pt_ret,              \* locals of phase_code_tuning
  ret,              \* local ret of eswin_sdhci_sdio_executing_tuning
  status,           \* value returned to the caller of the hook (read when pc = "done")
  dlog,             \* results of the delay scan's probes: <<code, passed>>
  plog,             \* results of the phase scan's probes: <<code, passed>>
  dt_failed,        \* the delay scan took its failure branch (line 216) in this pass
  et_ops,           \* hardware operations issued by executing_tuning's own body
  phase_prop,       \* the phase_code property read at attach: {} (absent) or {v}
  eye,              \* behaviour of the attached card (the tuning oracle)
  prev,             \* outcome of the previous pass, kept for a card with a fixed eye
  other_pc          \* position of a second, unserialised caller of the hook ("none": there is none)

hw == <<clk, cnfg, dc, at_stat, tuned_clk, sw_tune, cmd_data, cd_dirty>>

policy == <<enable_sw_tuning, priv_phase_code, phy_delay_code, phase_prop>>

world == <<eye, prev, other_pc>>

cpd == <<cpd_delay, cpd_ret>>

dt_locals == <<i, delay, delay_min, delay_max, delay_range, dt_ret>>

pt_locals == <<phase_code, code_min, code_max, pt_ret>>

ghost == <<dlog, plog, dt_failed, et_ops>>

vars == <<pc, hw, policy, world, cpd, dt_locals, pt_locals, ret, status, ghost>>

(* ------------------------------------------------------------------ *)
(* Observation helpers over a probe log                                *)
(* ------------------------------------------------------------------ *)
Passed(log, k) == log[k][2]

\* number of passing runs in a probe log
NumRuns(log) ==
  Cardinality({k \in 1..Len(log) : Passed(log, k) /\ (k = 1 \/ ~Passed(log, k - 1))})

\* number of failing probes at the end of a probe log
TrailingFails(log) ==
  Cardinality({k \in 1..Len(log) : \A n \in k..Len(log) : ~Passed(log, n)})

\* a passing probe may be drawn only if it extends the current run, opens the
\* first run, or opens a further run within MaxRuns and MaxGap
MayPass(log) ==
  \/ (Len(log) > 0 /\ Passed(log, Len(log)))
  \/ NumRuns(log) = 0
  \/ (NumRuns(log) < MaxRuns /\ TrailingFails(log) <= MaxGap)

(* ------------------------------------------------------------------ *)
(* Initial state: the controller is attached, the card clock runs, the *)
(* delay line holds the configured code (eswin_sdhci_sdio_config_phy). *)
(* ------------------------------------------------------------------ *)
\* the device-tree configurations met at attach (eswin_sdhci_sdio_probe):
\* enable_sw_tuning, the phase_code property ({} when absent), delay_code
Policies ==
  {<<FALSE, p, d>> : p \in {{}} \cup {{v} : v \in PhaseCodeProps}, d \in DelayCodeProps}
    \cup {<<TRUE, {<<0, 3>>}, 7>>}

\* a card whose answer to a tuning command is not tied to the programmed codes
FreeEye == [fixed |-> FALSE, delays |-> {}, phases |-> {}]

\* the state after attach for a configuration in pols and a card in eyes
InitWith(pols, eyes) ==
  /\ pc = "idle"
  /\ \E pol \in pols :
       /\ enable_sw_tuning = pol[1]
       /\ phase_prop = pol[2]
       /\ priv_phase_code = (IF pol[2] = {} THEN -1 ELSE ToInt(CHOOSE v \in pol[2] : TRUE))
       /\ phy_delay_code = pol[3]
  /\ eye \in eyes
  /\ prev = <<>>
  /\ other_pc = "none"
  /\ clk = TRUE
  /\ cnfg = 0
  /\ dc = W8(MaskDelay(phy_delay_code))
  /\ at_stat = 0
  /\ tuned_clk \in BOOLEAN
  /\ sw_tune \in BOOLEAN
  /\ cmd_data \in {0, 1}
  /\ cd_dirty = FALSE
  /\ cpd_delay = 0 /\ cpd_ret = "none"
  /\ i = 0 /\ delay = -1 /\ delay_min = -1 /\ delay_max = -1 /\ delay_range = -1
  /\ dt_ret = 0
  /\ phase_code = 0 /\ code_min = -1 /\ code_max = -1 /\ pt_ret = 0
  /\ ret = 0
  /\ status = 0
  /\ dlog = <<>> /\ plog = <<>> /\ dt_failed = FALSE /\ et_ops = <<>>

Init == InitWith(Policies, {FreeEye})

(* ------------------------------------------------------------------ *)
(* Collaborators                                                       *)
(* ------------------------------------------------------------------ *)
\* eswin_sdhci_disable_card_clk
DisableCardClk == clk' = FALSE

\* eswin_sdhci_enable_card_clk
EnableCardClk == clk' = TRUE

\* a card with a fixed eye answers by the codes programmed when the command
\* is sent: during the delay scan (phase 0) by the delay code, else by the phase
EyePasses == IF at_stat = 0 THEN dc \in eye.delays ELSE at_stat \in eye.phases

\* the statuses one mmc_send_tuning call can return after the probes in log
SendTuningResults(log) ==
  IF eye.fixed
    THEN {IF clk /\ EyePasses THEN 0 ELSE -EIO}
    ELSE TuningErrors \cup (IF MayPass(log) THEN {0} ELSE {})

\* eswin_sdhci_sdio_reset(host, mask): resets the selected logic; a full
\* reset clears the PHY, which is then configured again
eswin_sdhci_sdio_reset(mask) ==
  /\ cd_dirty' = (IF mask \cap {"CMD", "DATA", "ALL"} # {} THEN FALSE ELSE cd_dirty)
  /\ IF mask = {"ALL"}
       THEN /\ dc' = W8(MaskDelay(phy_delay_code))
            /\ cnfg' = 0
            /\ clk' = TRUE
       ELSE UNCHANGED <<dc, cnfg, clk>>
  /\ UNCHANGED <<at_stat, tuned_clk, sw_tune, cmd_data>>

(* ------------------------------------------------------------------ *)
(* eswin_sdhci_sdio_config_phy_delay                                   *)
(* ------------------------------------------------------------------ *)
\* variant of the entry of config_phy_delay without the mask of line 89
config_phy_delay_enter_NoMask(d, r) ==
  /\ cpd_delay' = d
  /\ cpd_ret' = r
  /\ cnfg' = W8(PHY_UPDATE_DELAY_CODE)
  /\ pc' = "L93"
  /\ UNCHANGED <<clk, dc, at_stat, tuned_clk, sw_tune, cmd_data, cd_dirty>>

\* entry: mask the parameter, arm the config register; r is the return address
config_phy_delay_enter(d, r) ==
  /\ cpd_delay' = MaskDelay(d)
  /\ cpd_ret' = r
  /\ cnfg' = W8(PHY_UPDATE_DELAY_CODE)
  /\ pc' = "L93"
  /\ UNCHANGED <<clk, dc, at_stat, tuned_clk, sw_tune, cmd_data, cd_dirty>>

CPD_L93 ==
  /\ pc = "L93"
  /\ dc' = W8(cpd_delay)
  /\ pc' = "L94"
  /\ UNCHANGED <<clk, cnfg, at_stat, tuned_clk, sw_tune, cmd_data, cd_dirty>>
  /\ UNCHANGED <<policy, cpd, dt_locals, pt_locals, ret, status, ghost>>
  /\ UNCHANGED world

CPD_L94 ==
  /\ pc = "L94"
  /\ cnfg' = 0
  /\ pc' = cpd_ret
  /\ UNCHANGED <<clk, dc, at_stat, tuned_clk, sw_tune, cmd_data, cd_dirty>>
  /\ UNCHANGED <<policy, cpd, dt_locals, pt_locals, ret, status, ghost>>
  /\ UNCHANGED world

(* ------------------------------------------------------------------ *)
(* eswin_sdhci_sdio_executing_tuning, lines 284-333                    *)
(* ------------------------------------------------------------------ *)
OpDisable == <<"disable_card_clk", "", 0>>

OpEnable == <<"enable_card_clk", "", 0>>

OpWrite(reg, val) == <<"writew", reg, val>>

\* the framework calls the platform_execute_tuning hook
Invoke ==
  /\ pc \in {"idle", "done"}
  /\ pc' = "L298"
  /\ ret' = 0
  /\ status' = 0
  /\ dlog' = <<>> /\ plog' = <<>> /\ dt_failed' = FALSE /\ et_ops' = <<>>
  /\ prev' = (IF eye.fixed /\ pc = "done"
                THEN <<status, dc, at_stat, tuned_clk, sw_tune>>
                ELSE prev)
  /\ UNCHANGED <<hw, policy, eye, other_pc, cpd, dt_locals, pt_locals>>

\* variant of lines 298-299 without the test of the phase code against -1
ET_L298_NoSentinelTest ==
  /\ pc = "L298"
  /\ IF enable_sw_tuning = FALSE
       THEN pc' = "L300" /\ status' = status
       ELSE pc' = "L307" /\ status' = status
  /\ UNCHANGED <<hw, policy, cpd, dt_locals, pt_locals, ret, ghost>>
  /\ UNCHANGED world

\* lines 298-299, 304: static mode, with or without a phase code
ET_L298 ==
  /\ pc = "L298"
  /\ IF enable_sw_tuning = FALSE
       THEN IF priv_phase_code # -1
              THEN pc' = "L300" /\ status' = status
              ELSE pc' = "done" /\ status' = 0
       ELSE pc' = "L307" /\ status' = status
  /\ UNCHANGED <<hw, policy, cpd, dt_locals, pt_locals, ret, ghost>>
  /\ UNCHANGED world

\* variant of line 300 that also clears the tuned-clock flag, as the AUTO path does
ET_L300_ClearsTunedClk ==
  /\ pc = "L300"
  /\ DisableCardClk
  /\ tuned_clk' = FALSE
  /\ et_ops' = Append(et_ops, OpDisable)
  /\ pc' = "L301"
  /\ UNCHANGED <<cnfg, dc, at_stat, sw_tune, cmd_data, cd_dirty>>
  /\ UNCHANGED <<policy, cpd, dt_locals, pt_locals, ret, status, dlog, plog, dt_failed>>
  /\ UNCHANGED world

ET_L300 ==
  /\ pc = "L300"
  /\ DisableCardClk
  /\ et_ops' = Append(et_ops, OpDisable)
  /\ pc' = "L301"
  /\ UNCHANGED <<cnfg, dc, at_stat, tuned_clk, sw_tune, cmd_data, cd_dirty>>
  /\ UNCHANGED <<policy, cpd, dt_locals, pt_locals, ret, status, dlog, plog, dt_failed>>
  /\ UNCHANGED world

ET_L301 ==
  /\ pc = "L301"
  /\ at_stat' = W16(priv_phase_code)
  /\ et_ops' = Append(et_ops, OpWrite("VENDOR_AT_SATA_R", priv_phase_code))
  /\ pc' = "L302"
  /\ UNCHANGED <<clk, cnfg, dc, tuned_clk, sw_tune, cmd_data, cd_dirty>>
  /\ UNCHANGED <<policy, cpd, dt_locals, pt_locals, ret, status, dlog, plog, dt_failed>>
  /\ UNCHANGED world

ET_L302 ==
  /\ pc = "L302"
  /\ EnableCardClk
  /\ et_ops' = Append(et_ops, OpEnable)
  /\ pc' = "L304"
  /\ UNCHANGED <<cnfg, dc, at_stat, tuned_clk, sw_tune, cmd_data, cd_dirty>>
  /\ UNCHANGED <<policy, cpd, dt_locals, pt_locals, ret, status, dlog, plog, dt_failed>>
  /\ UNCHANGED world

ET_L304 ==
  /\ pc = "L304"
  /\ status' = 0
  /\ pc' = "done"
  /\ UNCHANGED <<hw, policy, cpd, dt_locals, pt_locals, ret, ghost>>
  /\ UNCHANGED world

ET_L307 ==
  /\ pc = "L307"
  /\ DisableCardClk
  /\ et_ops' = Append(et_ops, OpDisable)
  /\ pc' = "L309"
  /\ UNCHANGED <<cnfg, dc, at_stat, tuned_clk, sw_tune, cmd_data, cd_dirty>>
  /\ UNCHANGED <<policy, cpd, dt_locals, pt_locals, ret, status, dlog, plog, dt_failed>>
  /\ UNCHANGED world

\* lines 309-311: clear SDHCI_CTRL_TUNED_CLK
ET_L309 ==
  /\ pc = "L309"
  /\ tuned_clk' = FALSE
  /\ et_ops' = Append(et_ops, OpWrite("SDHCI_HOST_CONTROL2", 0))
  /\ pc' = "L313"
  /\ UNCHANGED <<clk, cnfg, dc, at_stat, sw_tune, cmd_data, cd_dirty>>
  /\ UNCHANGED <<policy, cpd, dt_locals, pt_locals, ret, status, dlog, plog, dt_failed>>
  /\ UNCHANGED world

\* lines 313-315: set SW_TUNE_ENABLE
ET_L313 ==
  /\ pc = "L313"
  /\ sw_tune' = TRUE
  /\ et_ops' = Append(et_ops, OpWrite("VENDOR_AT_CTRL_R", 1))
  /\ pc' = "L316"
  /\ UNCHANGED <<clk, cnfg, dc, at_stat, tuned_clk, cmd_data, cd_dirty>>
  /\ UNCHANGED <<policy, cpd, dt_locals, pt_locals, ret, status, dlog, plog, dt_failed>>
  /\ UNCHANGED world

\* variant of line 316 that leaves the phase register as the last pass set it
ET_L316_KeepsPhase ==
  /\ pc = "L316"
  /\ at_stat' = at_stat
  /\ et_ops' = Append(et_ops, OpWrite("VENDOR_AT_SATA_R", 0))
  /\ pc' = "L318"
  /\ UNCHANGED <<clk, cnfg, dc, tuned_clk, sw_tune, cmd_data, cd_dirty>>
  /\ UNCHANGED <<policy, cpd, dt_locals, pt_locals, ret, status, dlog, plog, dt_failed>>
  /\ UNCHANGED world

\* variant of line 316 that writes the configured static phase code instead of 0
ET_L316_WritesStaticPhase ==
  /\ pc = "L316"
  /\ at_stat' = W16(priv_phase_code)
  /\ et_ops' = Append(et_ops, OpWrite("VENDOR_AT_SATA_R", 0))
  /\ pc' = "L318"
  /\ UNCHANGED <<clk, cnfg, dc, tuned_clk, sw_tune, cmd_data, cd_dirty>>
  /\ UNCHANGED <<policy, cpd, dt_locals, pt_locals, ret, status, dlog, plog, dt_failed>>
  /\ UNCHANGED world

ET_L316 ==
  /\ pc = "L316"
  /\ at_stat' = W16(0)
  /\ et_ops' = Append(et_ops, OpWrite("VENDOR_AT_SATA_R", 0))
  /\ pc' = "L318"
  /\ UNCHANGED <<clk, cnfg, dc, tuned_clk, sw_tune, cmd_data, cd_dirty>>
  /\ UNCHANGED <<policy, cpd, dt_locals, pt_locals, ret, status, dlog, plog, dt_failed>>
  /\ UNCHANGED world

ET_L318 ==
  /\ pc = "L318"
  /\ EnableCardClk
  /\ et_ops' = Append(et_ops, OpEnable)
  /\ pc' = "L320"
  /\ UNCHANGED <<cnfg, dc, at_stat, tuned_clk, sw_tune, cmd_data, cd_dirty>>
  /\ UNCHANGED <<policy, cpd, dt_locals, pt_locals, ret, status, dlog, plog, dt_failed>>
  /\ UNCHANGED world

ET_L320 ==
  /\ pc = "L320"
  /\ cmd_data' = W16(0)
  /\ et_ops' = Append(et_ops, OpWrite("SDHCI_CMD_DATA", 0))
  /\ pc' = "L322"
  /\ UNCHANGED <<clk, cnfg, dc, at_stat, tuned_clk, sw_tune, cd_dirty>>
  /\ UNCHANGED <<policy, cpd, dt_locals, pt_locals, ret, status, dlog, plog, dt_failed>>
  /\ UNCHANGED world

\* variant of line 322 that calls the phase scan before the delay scan
ET_L322_PhaseFirst ==
  /\ pc = "L322"
  /\ phase_code' = 0 /\ code_min' = -1 /\ code_max' = -1 /\ pt_ret' = 0
  /\ pc' = "L244"
  /\ UNCHANGED <<hw, policy, cpd, dt_locals, ret, status, ghost>>
  /\ UNCHANGED world

\* line 322: call eswin_sdhci_sdio_delay_tuning (its locals, lines 176-183)
ET_L322 ==
  /\ pc = "L322"
  /\ i' = 0 /\ delay' = -1 /\ delay_min' = -1 /\ delay_max' = -1
  /\ delay_range' = -1 /\ dt_ret' = 0
  /\ pc' = "L188"
  /\ UNCHANGED <<hw, policy, cpd, pt_locals, ret, status, ghost>>
  /\ UNCHANGED world

\* lines 323-327: propagate the delay scan's failure, else call
\* eswin_sdhci_sdio_phase_code_tuning (its locals, lines 238-242)
ET_L323 ==
  /\ pc = "L323"
  /\ dlog' = <<>>
  /\ IF ret < 0
       THEN /\ status' = ret
            /\ pc' = "done"
            /\ UNCHANGED pt_locals
       ELSE /\ status' = status
            /\ phase_code' = 0 /\ code_min' = -1 /\ code_max' = -1 /\ pt_ret' = 0
            /\ pc' = "L244"
  /\ UNCHANGED <<hw, policy, cpd, dt_locals, ret, plog, dt_failed, et_ops>>
  /\ UNCHANGED world

\* lines 328-332: propagate the phase scan's result
ET_L328 ==
  /\ pc = "L328"
  /\ plog' = <<>>
  /\ status' = (IF ret < 0 THEN ret ELSE 0)
  /\ pc' = "done"
  /\ UNCHANGED <<hw, policy, cpd, dt_locals, pt_locals, ret, dlog, dt_failed, et_ops>>
  /\ UNCHANGED world

(* ------------------------------------------------------------------ *)
(* eswin_sdhci_sdio_delay_tuning, lines 174-233                        *)
(* ------------------------------------------------------------------ *)
\* variant of line 188 with an exclusive loop bound (i < PHY_DELAY_CODE_MAX)
DT_L188_ExclusiveBound ==
  /\ pc = "L188"
  /\ pc' = (IF i < PHY_DELAY_CODE_MAX THEN "L189" ELSE "L216")
  /\ UNCHANGED <<hw, policy, cpd, dt_locals, pt_locals, ret, status, ghost>>
  /\ UNCHANGED world

\* line 188: loop test
DT_L188 ==
  /\ pc = "L188"
  /\ pc' = (IF i <= PHY_DELAY_CODE_MAX THEN "L189" ELSE "L216")
  /\ UNCHANGED <<hw, policy, cpd, dt_locals, pt_locals, ret, status, ghost>>
  /\ UNCHANGED world

\* variant of line 189 that leaves the card clock running
DT_L189_NoClockGate ==
  /\ pc = "L189"
  /\ pc' = "L190"
  /\ UNCHANGED <<hw, policy, cpd, dt_locals, pt_locals, ret, status, ghost>>
  /\ UNCHANGED world

DT_L189 ==
  /\ pc = "L189"
  /\ DisableCardClk
  /\ pc' = "L190"
  /\ UNCHANGED <<cnfg, dc, at_stat, tuned_clk, sw_tune, cmd_data, cd_dirty>>
  /\ UNCHANGED <<policy, cpd, dt_locals, pt_locals, ret, status, ghost>>
  /\ UNCHANGED world

\* variant of line 190 that programs the code after the one being scanned
DT_L190_NextCode ==
  /\ pc = "L190"
  /\ config_phy_delay_enter(i + 1, "L191")
  /\ UNCHANGED <<policy, dt_locals, pt_locals, ret, status, ghost>>
  /\ UNCHANGED world

DT_L190 ==
  /\ pc = "L190"
  /\ config_phy_delay_enter(i, "L191")
  /\ UNCHANGED <<policy, dt_locals, pt_locals, ret, status, ghost>>
  /\ UNCHANGED world

DT_L191 ==
  /\ pc = "L191"
  /\ EnableCardClk
  /\ pc' = "L192"
  /\ UNCHANGED <<cnfg, dc, at_stat, tuned_clk, sw_tune, cmd_data, cd_dirty>>
  /\ UNCHANGED <<policy, cpd, dt_locals, pt_locals, ret, status, ghost>>
  /\ UNCHANGED world

\* lines 192-193: ret = mmc_send_tuning(...); if (ret)
DT_L192 ==
  /\ pc = "L192"
  /\ \E r \in SendTuningResults(dlog) :
       /\ dt_ret' = r
       /\ dlog' = Append(dlog, <<i, r = 0>>)
       /\ cd_dirty' = (r # 0)
       /\ pc' = (IF r # 0 THEN "L194" ELSE "L207")
  /\ UNCHANGED <<clk, cnfg, dc, at_stat, tuned_clk, sw_tune, cmd_data>>
  /\ UNCHANGED <<policy, cpd, i, delay, delay_min, delay_max, delay_range>>
  /\ UNCHANGED <<pt_locals, ret, status, plog, dt_failed, et_ops>>
  /\ UNCHANGED world

\* variant of lines 194-195 that goes on without the reset
DT_L194_NoReset ==
  /\ pc = "L194"
  /\ pc' = "L196"
  /\ UNCHANGED <<hw, policy, cpd, dt_locals, pt_locals, ret, status, ghost>>
  /\ UNCHANGED world

\* lines 194-195: host->ops->reset(host, SDHCI_RESET_CMD | SDHCI_RESET_DATA); udelay(200)
DT_L194 ==
  /\ pc = "L194"
  /\ eswin_sdhci_sdio_reset({"CMD", "DATA"})
  /\ pc' = "L196"
  /\ UNCHANGED <<policy, cpd, dt_locals, pt_locals, ret, status, ghost>>
  /\ UNCHANGED world

\* lines 196-205: a failed probe closes the window held in delay_min, delay_max
DT_L196 ==
  /\ pc = "L196"
  /\ IF delay_min # -1 /\ delay_max # -1
       THEN IF delay_max - delay_min > delay_range
              THEN /\ delay_range' = delay_max - delay_min
                   /\ delay' = CDiv(delay_min + delay_max, 2)
                   /\ IF delay_max - delay_min > DELAY_RANGE_THRESHOLD
                        THEN /\ pc' = "L216"
                             /\ UNCHANGED <<i, delay_min, delay_max>>
                        ELSE /\ delay_min' = -1 /\ delay_max' = -1
                             /\ i' = i + 1
                             /\ pc' = "L188"
              ELSE /\ delay_min' = -1 /\ delay_max' = -1
                   /\ i' = i + 1
                   /\ pc' = "L188"
                   /\ UNCHANGED <<delay, delay_range>>
       ELSE /\ i' = i + 1
            /\ pc' = "L188"
            /\ UNCHANGED <<delay, delay_min, delay_max, delay_range>>
  /\ UNCHANGED <<hw, policy, cpd, dt_ret, pt_locals, ret, status, ghost>>
  /\ UNCHANGED world

\* variant of lines 207-213 whose continue does not reach the loop increment
DT_L207_NoIncrement ==
  /\ pc = "L207"
  /\ IF delay_min = -1
       THEN delay_min' = i /\ delay_max' = delay_max
       ELSE delay_max' = i /\ delay_min' = delay_min
  /\ i' = i
  /\ pc' = "L188"
  /\ UNCHANGED <<hw, policy, cpd, delay, delay_range, dt_ret>>
  /\ UNCHANGED <<pt_locals, ret, status, ghost>>
  /\ UNCHANGED world

\* lines 207-213: a passing probe opens or extends the window
DT_L207 ==
  /\ pc = "L207"
  /\ IF delay_min = -1
       THEN delay_min' = i /\ delay_max' = delay_max
       ELSE delay_max' = i /\ delay_min' = delay_min
  /\ i' = i + 1
  /\ pc' = "L188"
  /\ UNCHANGED <<hw, policy, cpd, delay, delay_range, dt_ret>>
  /\ UNCHANGED <<pt_locals, ret, status, ghost>>
  /\ UNCHANGED world

\* line 216: if (delay == -1)
DT_L216 ==
  /\ pc = "L216"
  /\ IF delay = -1
       THEN pc' = "L219" /\ dt_failed' = TRUE
       ELSE pc' = "L228" /\ dt_failed' = dt_failed
  /\ UNCHANGED <<hw, policy, cpd, dt_locals, pt_locals, ret, status, dlog, plog, et_ops>>
  /\ UNCHANGED world

DT_L219 ==
  /\ pc = "L219"
  /\ DisableCardClk
  /\ pc' = "L220"
  /\ UNCHANGED <<cnfg, dc, at_stat, tuned_clk, sw_tune, cmd_data, cd_dirty>>
  /\ UNCHANGED <<policy, cpd, dt_locals, pt_locals, ret, status, ghost>>
  /\ UNCHANGED world

\* variant of line 220 that programs the local delay instead of phy.delay_code
DT_L220_WritesDelay ==
  /\ pc = "L220"
  /\ config_phy_delay_enter(delay, "L222")
  /\ UNCHANGED <<policy, dt_locals, pt_locals, ret, status, ghost>>
  /\ UNCHANGED world

DT_L220 ==
  /\ pc = "L220"
  /\ config_phy_delay_enter(phy_delay_code, "L222")
  /\ UNCHANGED <<policy, dt_locals, pt_locals, ret, status, ghost>>
  /\ UNCHANGED world

DT_L222 ==
  /\ pc = "L222"
  /\ EnableCardClk
  /\ pc' = "L224"
  /\ UNCHANGED <<cnfg, dc, at_stat, tuned_clk, sw_tune, cmd_data, cd_dirty>>
  /\ UNCHANGED <<policy, cpd, dt_locals, pt_locals, ret, status, ghost>>
  /\ UNCHANGED world

\* the frame of delay_tuning is left: its locals are dead
DelayTuningReturn(value) ==
  /\ ret' = value
  /\ pc' = "L323"
  /\ i' = 0 /\ delay' = -1 /\ delay_min' = -1 /\ delay_max' = -1
  /\ delay_range' = -1 /\ dt_ret' = 0
  /\ UNCHANGED <<hw, policy, cpd, pt_locals, status, ghost>>

\* line 224: return ret
DT_L224 ==
  /\ pc = "L224"
  /\ DelayTuningReturn(dt_ret)
  /\ UNCHANGED world

DT_L228 ==
  /\ pc = "L228"
  /\ DisableCardClk
  /\ pc' = "L229"
  /\ UNCHANGED <<cnfg, dc, at_stat, tuned_clk, sw_tune, cmd_data, cd_dirty>>
  /\ UNCHANGED <<policy, cpd, dt_locals, pt_locals, ret, status, ghost>>
  /\ UNCHANGED world

DT_L229 ==
  /\ pc = "L229"
  /\ config_phy_delay_enter(delay, "L230")
  /\ UNCHANGED <<policy, dt_locals, pt_locals, ret, status, ghost>>
  /\ UNCHANGED world

\* variant of line 230 that returns without enabling the card clock
DT_L230_NoEnable ==
  /\ pc = "L230"
  /\ clk' = clk
  /\ pc' = "L232"
  /\ UNCHANGED <<cnfg, dc, at_stat, tuned_clk, sw_tune, cmd_data, cd_dirty>>
  /\ UNCHANGED <<policy, cpd, dt_locals, pt_locals, ret, status, ghost>>
  /\ UNCHANGED world

DT_L230 ==
  /\ pc = "L230"
  /\ EnableCardClk
  /\ pc' = "L232"
  /\ UNCHANGED <<cnfg, dc, at_stat, tuned_clk, sw_tune, cmd_data, cd_dirty>>
  /\ UNCHANGED <<policy, cpd, dt_locals, pt_locals, ret, status, ghost>>
  /\ UNCHANGED world

\* line 232: return 0
DT_L232 ==
  /\ pc = "L232"
  /\ DelayTuningReturn(0)
  /\ UNCHANGED world

(* ------------------------------------------------------------------ *)
(* eswin_sdhci_sdio_phase_code_tuning, lines 235-282                   *)
(* ------------------------------------------------------------------ *)
\* line 244: loop test
PT_L244 ==
  /\ pc = "L244"
  /\ pc' = (IF phase_code <= MAX_PHASE_CODE THEN "L245" ELSE "L265")
  /\ UNCHANGED <<hw, policy, cpd, dt_locals, pt_locals, ret, status, ghost>>
  /\ UNCHANGED world

PT_L245 ==
  /\ pc = "L245"
  /\ DisableCardClk
  /\ pc' = "L246"
  /\ UNCHANGED <<cnfg, dc, at_stat, tuned_clk, sw_tune, cmd_data, cd_dirty>>
  /\ UNCHANGED <<policy, cpd, dt_locals, pt_locals, ret, status, ghost>>
  /\ UNCHANGED world

PT_L246 ==
  /\ pc = "L246"
  /\ at_stat' = W16(phase_code)
  /\ pc' = "L247"
  /\ UNCHANGED <<clk, cnfg, dc, tuned_clk, sw_tune, cmd_data, cd_dirty>>
  /\ UNCHANGED <<policy, cpd, dt_locals, pt_locals, ret, status, ghost>>
  /\ UNCHANGED world

PT_L247 ==
  /\ pc = "L247"
  /\ EnableCardClk
  /\ pc' = "L249"
  /\ UNCHANGED <<cnfg, dc, at_stat, tuned_clk, sw_tune, cmd_data, cd_dirty>>
  /\ UNCHANGED <<policy, cpd, dt_locals, pt_locals, ret, status, ghost>>
  /\ UNCHANGED world

\* lines 249-250: ret = mmc_send_tuning(...); if (ret)
PT_L249 ==
  /\ pc = "L249"
  /\ \E r \in SendTuningResults(plog) :
       /\ pt_ret' = r
       /\ plog' = Append(plog, <<phase_code, r = 0>>)
       /\ cd_dirty' = (r # 0)
       /\ pc' = (IF r # 0 THEN "L251" ELSE "L256")
  /\ UNCHANGED <<clk, cnfg, dc, at_stat, tuned_clk, sw_tune, cmd_data>>
  /\ UNCHANGED <<policy, cpd, dt_locals, phase_code, code_min, code_max>>
  /\ UNCHANGED <<ret, status, dlog, dt_failed, et_ops>>
  /\ UNCHANGED world

\* variant of line 251 that resets with mask SDHCI_RESET_ALL
PT_L251_ResetAll ==
  /\ pc = "L251"
  /\ eswin_sdhci_sdio_reset({"ALL"})
  /\ pc' = "L253"
  /\ UNCHANGED <<policy, cpd, dt_locals, pt_locals, ret, status, ghost>>
  /\ UNCHANGED world

\* lines 251-252: reset of the command and data logic, udelay(200)
PT_L251 ==
  /\ pc = "L251"
  /\ eswin_sdhci_sdio_reset({"CMD", "DATA"})
  /\ pc' = "L253"
  /\ UNCHANGED <<policy, cpd, dt_locals, pt_locals, ret, status, ghost>>
  /\ UNCHANGED world

\* variant of lines 253-254 without the break: the scan goes on to the next phase
PT_L253_NoBreak ==
  /\ pc = "L253"
  /\ pc' = "L244"
  /\ phase_code' = phase_code + 1
  /\ UNCHANGED <<hw, policy, cpd, dt_locals, code_min, code_max, pt_ret>>
  /\ UNCHANGED <<ret, status, ghost>>
  /\ UNCHANGED world

\* lines 253-254: a failed probe ends the scan when code_min and code_max are set
PT_L253 ==
  /\ pc = "L253"
  /\ IF code_min # -1 /\ code_max # -1
       THEN pc' = "L265" /\ phase_code' = phase_code
       ELSE pc' = "L244" /\ phase_code' = phase_code + 1
  /\ UNCHANGED <<hw, policy, cpd, dt_locals, code_min, code_max, pt_ret>>
  /\ UNCHANGED <<ret, status, ghost>>
  /\ UNCHANGED world

\* lines 256-262: a passing probe opens or extends the window
PT_L256 ==
  /\ pc = "L256"
  /\ IF code_min = -1
       THEN code_min' = phase_code /\ code_max' = code_max
       ELSE code_max' = phase_code /\ code_min' = code_min
  /\ phase_code' = phase_code + 1
  /\ pc' = "L244"
  /\ UNCHANGED <<hw, policy, cpd, dt_locals, pt_ret, ret, status, ghost>>
  /\ UNCHANGED world

\* lines 265, 274: fallback, or the midpoint of code_min and code_max
PT_L265 ==
  /\ pc = "L265"
  /\ IF code_min = -1 /\ code_max = -1
       THEN pc' = "L268" /\ phase_code' = phase_code
       ELSE pc' = "L277" /\ phase_code' = CDiv(code_min + code_max, 2)
  /\ UNCHANGED <<hw, policy, cpd, dt_locals, code_min, code_max, pt_ret>>
  /\ UNCHANGED <<ret, status, ghost>>
  /\ UNCHANGED world

PT_L268 ==
  /\ pc = "L268"
  /\ DisableCardClk
  /\ pc' = "L269"
  /\ UNCHANGED <<cnfg, dc, at_stat, tuned_clk, sw_tune, cmd_data, cd_dirty>>
  /\ UNCHANGED <<policy, cpd, dt_locals, pt_locals, ret, status, ghost>>
  /\ UNCHANGED world

\* variant of line 269 that programs the loop variable instead of 0
PT_L269_LoopVariable ==
  /\ pc = "L269"
  /\ at_stat' = W16(phase_code)
  /\ pc' = "L270"
  /\ UNCHANGED <<clk, cnfg, dc, tuned_clk, sw_tune, cmd_data, cd_dirty>>
  /\ UNCHANGED <<policy, cpd, dt_locals, pt_locals, ret, status, ghost>>
  /\ UNCHANGED world

PT_L269 ==
  /\ pc = "L269"
  /\ at_stat' = W16(0)
  /\ pc' = "L270"
  /\ UNCHANGED <<clk, cnfg, dc, tuned_clk, sw_tune, cmd_data, cd_dirty>>
  /\ UNCHANGED <<policy, cpd, dt_locals, pt_locals, ret, status, ghost>>
  /\ UNCHANGED world

PT_L270 ==
  /\ pc = "L270"
  /\ EnableCardClk
  /\ pc' = "L271"
  /\ UNCHANGED <<cnfg, dc, at_stat, tuned_clk, sw_tune, cmd_data, cd_dirty>>
  /\ UNCHANGED <<policy, cpd, dt_locals, pt_locals, ret, status, ghost>>
  /\ UNCHANGED world

\* the frame of phase_code_tuning is left: its locals are dead
PhaseTuningReturn(value) ==
  /\ ret' = value
  /\ pc' = "L328"
  /\ phase_code' = 0 /\ code_min' = -1 /\ code_max' = -1 /\ pt_ret' = 0
  /\ UNCHANGED <<hw, policy, cpd, dt_locals, status, ghost>>

\* line 271: return -EIO
PT_L271 ==
  /\ pc = "L271"
  /\ PhaseTuningReturn(-EIO)
  /\ UNCHANGED world

PT_L277 ==
  /\ pc = "L277"
  /\ DisableCardClk
  /\ pc' = "L278"
  /\ UNCHANGED <<cnfg, dc, at_stat, tuned_clk, sw_tune, cmd_data, cd_dirty>>
  /\ UNCHANGED <<policy, cpd, dt_locals, pt_locals, ret, status, ghost>>
  /\ UNCHANGED world

PT_L278 ==
  /\ pc = "L278"
  /\ at_stat' = W16(phase_code)
  /\ pc' = "L279"
  /\ UNCHANGED <<clk, cnfg, dc, tuned_clk, sw_tune, cmd_data, cd_dirty>>
  /\ UNCHANGED <<policy, cpd, dt_locals, pt_locals, ret, status, ghost>>
  /\ UNCHANGED world

PT_L279 ==
  /\ pc = "L279"
  /\ EnableCardClk
  /\ pc' = "L281"
  /\ UNCHANGED <<cnfg, dc, at_stat, tuned_clk, sw_tune, cmd_data, cd_dirty>>
  /\ UNCHANGED <<policy, cpd, dt_locals, pt_locals, ret, status, ghost>>
  /\ UNCHANGED world

\* line 281: return 0
PT_L281 ==
  /\ pc = "L281"
  /\ PhaseTuningReturn(0)
  /\ UNCHANGED world

(* ------------------------------------------------------------------ *)
(* Specification                                                       *)
(* ------------------------------------------------------------------ *)
Next ==
  \/ Invoke
  \/ ET_L298 \/ ET_L300 \/ ET_L301 \/ ET_L302 \/ ET_L304
  \/ ET_L307 \/ ET_L309 \/ ET_L313 \/ ET_L316 \/ ET_L318 \/ ET_L320
  \/ ET_L322 \/ ET_L323 \/ ET_L328
  \/ CPD_L93 \/ CPD_L94
  \/ DT_L188 \/ DT_L189 \/ DT_L190 \/ DT_L191 \/ DT_L192 \/ DT_L194
  \/ DT_L196 \/ DT_L207 \/ DT_L216 \/ DT_L219 \/ DT_L220 \/ DT_L222
  \/ DT_L224 \/ DT_L228 \/ DT_L229 \/ DT_L230 \/ DT_L232
  \/ PT_L244 \/ PT_L245 \/ PT_L246 \/ PT_L247 \/ PT_L249 \/ PT_L251
  \/ PT_L253 \/ PT_L256 \/ PT_L265 \/ PT_L268 \/ PT_L269 \/ PT_L270
  \/ PT_L271 \/ PT_L277 \/ PT_L278 \/ PT_L279 \/ PT_L281

(* ------------------------------------------------------------------ *)
(* Cards with a fixed eye, and configurations with wide delay codes    *)
(* ------------------------------------------------------------------ *)
\* delay_code values wider than the delay line
WideDelayCodeProps == {40, 2147483647}

\* sets of delay codes (at phase 0) and of phases a card passes at
DelayEyes ==
  {{}, 0..PHY_DELAY_CODE_MAX, 2..9, {0, 2}, (2..5) \cup (8..15)}

PhaseEyes == {{}, 1..MAX_PHASE_CODE, {2, 3}, {MAX_PHASE_CODE}}

FixedEyes ==
  {[fixed |-> TRUE, delays |-> D, phases |-> P] : D \in DelayEyes, P \in PhaseEyes}

WidePolicies ==
  Policies \cup
    {<<TRUE, {<<0, 3>>}, d>> : d \in DelayCodeProps \cup WideDelayCodeProps}

InitFixedEye == InitWith(WidePolicies, FixedEyes)

Spec == Init /\ [][Next]_vars

\* the same program with a card of fixed eye attached
SpecFixedEye == InitFixedEye /\ [][Next]_vars

\* the hook is executing
Running == pc \notin {"idle", "done"}

\* the processor keeps executing the hook once it was called
SpecLive == Init /\ [][Next]_vars /\ WF_vars(Running /\ Next)

(* ------------------------------------------------------------------ *)
(* A second caller of the hook that is not serialised with the first.  *)
(* It runs eswin_sdhci_sdio_executing_tuning on the same controller up *)
(* to its first tuning command; its locals are its own, the registers  *)
(* are the controller's.                                               *)
(* ------------------------------------------------------------------ *)
\* what a statement of the second caller leaves alone besides registers
OtherKeeps ==
  UNCHANGED <<pc, policy, eye, prev, cpd, dt_locals, pt_locals, ret, status, ghost>>

\* the second caller enters the hook while a pass is running (line 298 sends
\* it on to line 307 when enable_sw_tuning is set)
O_Invoke ==
  /\ Running
  /\ other_pc = "none"
  /\ enable_sw_tuning
  /\ other_pc' = "L307"
  /\ UNCHANGED hw
  /\ OtherKeeps

O_L307 ==
  /\ other_pc = "L307"
  /\ DisableCardClk
  /\ other_pc' = "L309"
  /\ UNCHANGED <<cnfg, dc, at_stat, tuned_clk, sw_tune, cmd_data, cd_dirty>>
  /\ OtherKeeps

O_L309 ==
  /\ other_pc = "L309"
  /\ tuned_clk' = FALSE
  /\ other_pc' = "L313"
  /\ UNCHANGED <<clk, cnfg, dc, at_stat, sw_tune, cmd_data, cd_dirty>>
  /\ OtherKeeps

O_L313 ==
  /\ other_pc = "L313"
  /\ sw_tune' = TRUE
  /\ other_pc' = "L316"
  /\ UNCHANGED <<clk, cnfg, dc, at_stat, tuned_clk, cmd_data, cd_dirty>>
  /\ OtherKeeps

O_L316 ==
  /\ other_pc = "L316"
  /\ at_stat' = W16(0)
  /\ other_pc' = "L318"
  /\ UNCHANGED <<clk, cnfg, dc, tuned_clk, sw_tune, cmd_data, cd_dirty>>
  /\ OtherKeeps

O_L318 ==
  /\ other_pc = "L318"
  /\ EnableCardClk
  /\ other_pc' = "L320"
  /\ UNCHANGED <<cnfg, dc, at_stat, tuned_clk, sw_tune, cmd_data, cd_dirty>>
  /\ OtherKeeps

O_L320 ==
  /\ other_pc = "L320"
  /\ cmd_data' = W16(0)
  /\ other_pc' = "L189"
  /\ UNCHANGED <<clk, cnfg, dc, at_stat, tuned_clk, sw_tune, cd_dirty>>
  /\ OtherKeeps

\* first iteration of its delay scan (its i is 0)
O_L189 ==
  /\ other_pc = "L189"
  /\ DisableCardClk
  /\ other_pc' = "L92"
  /\ UNCHANGED <<cnfg, dc, at_stat, tuned_clk, sw_tune, cmd_data, cd_dirty>>
  /\ OtherKeeps

O_L92 ==
  /\ other_pc = "L92"
  /\ cnfg' = W8(PHY_UPDATE_DELAY_CODE)
  /\ other_pc' = "L93"
  /\ UNCHANGED <<clk, dc, at_stat, tuned_clk, sw_tune, cmd_data, cd_dirty>>
  /\ OtherKeeps

O_L93 ==
  /\ other_pc = "L93"
  /\ dc' = W8(MaskDelay(0))
  /\ other_pc' = "L94"
  /\ UNCHANGED <<clk, cnfg, at_stat, tuned_clk, sw_tune, cmd_data, cd_dirty>>
  /\ OtherKeeps

O_L94 ==
  /\ other_pc = "L94"
  /\ cnfg' = 0
  /\ other_pc' = "L191"
  /\ UNCHANGED <<clk, dc, at_stat, tuned_clk, sw_tune, cmd_data, cd_dirty>>
  /\ OtherKeeps

\* it is now about to send its first tuning command (line 192)
O_L191 ==
  /\ other_pc = "L191"
  /\ EnableCardClk
  /\ other_pc' = "L192"
  /\ UNCHANGED <<cnfg, dc, at_stat, tuned_clk, sw_tune, cmd_data, cd_dirty>>
  /\ OtherKeeps

NextShared ==
  \/ Next
  \/ O_Invoke
  \/ O_L307 \/ O_L309 \/ O_L313 \/ O_L316 \/ O_L318 \/ O_L320
  \/ O_L189 \/ O_L92 \/ O_L93 \/ O_L94 \/ O_L191

\* cards met by the two callers
SharedEyes ==
  {[fixed |-> TRUE, delays |-> {}, phases |-> {}],
   [fixed |-> TRUE, delays |-> 2..9, phases |-> {}],
   [fixed |-> TRUE, delays |-> 2..9, phases |-> {2, 3}],
   [fixed |-> TRUE, delays |-> (2..5) \cup (8..15), phases |-> 1..MAX_PHASE_CODE]}

InitShared == InitWith(Policies, SharedEyes)

\* the program when the framework does not serialise its callers
SpecShared == InitShared /\ [][NextShared]_vars

(* ------------------------------------------------------------------ *)
(* Observations on a scan: the oracle is what the probes returned      *)
(* ------------------------------------------------------------------ *)
Probed(log) == {log[k][1] : k \in 1..Len(log)}

PassCodes(log) == {log[k][1] : k \in {n \in 1..Len(log) : log[n][2]}}

AllFail(log) == PassCodes(log) = {}

\* the maximal runs <<a, b>> of consecutive passing codes
Runs(log) ==
  LET P == PassCodes(log)
  IN {r \in P \X P : /\ r[1] <= r[2]
                     /\ \A c \in r[1]..r[2] : c \in P
                     /\ (r[1] - 1) \notin P
                     /\ (r[2] + 1) \notin P}

\* a run is closed when the probe of the next code was issued (and failed)
Closed(log, r) == (r[2] + 1) \in Probed(log)

Width(r) == r[2] - r[1]

Mid(r) == (r[1] + r[2]) \div 2

\* the delay scan has returned to executing_tuning (line 323 is about to run)
DelayScanReturned == pc = "L323"

\* the phase scan has returned to executing_tuning (line 328 is about to run)
PhaseScanReturned == pc = "L328"

FallbackDelay == W8(MaskDelay(phy_delay_code))

InPhaseScan ==
  pc \in {"L244", "L245", "L246", "L247", "L249", "L251", "L253", "L256", "L265",
          "L268", "L269", "L270", "L271", "L277", "L278", "L279", "L281", "L328"}

(* ------------------------------------------------------------------ *)
(* Properties                                                          *)
(* ------------------------------------------------------------------ *)

\* C1 (P1): when the passing delay codes form exactly one contiguous run
\* [a,b], the delay scan reports success and the delay line is left at
\* floor((a+b)/2).
C1_DelaySingleRunMidpoint ==
  (DelayScanReturned /\ Cardinality(Runs(dlog)) = 1) =>
    \A r \in Runs(dlog) : ret = 0 /\ ~dt_failed /\ dc = Mid(r)

\* C2 (P2): when the passing delay codes form exactly two disjoint runs of
\* widths w1 < w2, the delay line is left at the midpoint of the w2 run.
C2_DelayWidestOfTwoRuns ==
  (DelayScanReturned /\ Cardinality(Runs(dlog)) = 2) =>
    \A r1, r2 \in Runs(dlog) : Width(r1) < Width(r2) => dc = Mid(r2)

\* C3 (P4): with two disjoint passing runs the phase scan commits the
\* midpoint of the first run in scan order that a failing probe closed; the
\* committed phase is never computed from codes of two different runs.
C3_PhaseFirstBoundedRun ==
  (PhaseScanReturned /\ Cardinality(Runs(plog)) = 2) =>
    \E r \in Runs(plog) :
      /\ Closed(plog, r)
      /\ \A q \in Runs(plog) : Closed(plog, q) => r[1] <= q[1]
      /\ ret = 0
      /\ at_stat = Mid(r)

\* C4: a delay scan that ends with no candidate writes the configured
\* fallback code and returns a negative status; otherwise it returns 0.  The
\* status is a failure whenever the fallback code was programmed.
C4_DelayFallbackIsFailure ==
  DelayScanReturned =>
    IF dt_failed THEN dc = FallbackDelay /\ ret < 0
                 ELSE ret = 0

\* C5: the phase scan reports success only when a passing run closed by a
\* failing probe was found, and then commits the midpoint of that run;
\* without such a run it writes phase code 0 and reports failure.
C5_PhaseSuccessOnlyIfBounded ==
  PhaseScanReturned =>
    IF \E r \in Runs(plog) : Closed(plog, r)
      THEN ret = 0 /\ \E r \in Runs(plog) : Closed(plog, r) /\ at_stat = Mid(r)
      ELSE ret < 0 /\ at_stat = 0

\* C6 (P6): once the delay scan has failed (fallback branch taken), the phase
\* scan is never entered, no phase probe is issued, and the hook returns a
\* failure.
C6_NoPhaseScanAfterDelayFailure ==
  dt_failed =>
    /\ ~InPhaseScan
    /\ plog = <<>>
    /\ (pc = "done" => status < 0)

\* C7 (P5, delay): when every delay probe fails, the scan has probed every
\* code 0..PHY_DELAY_CODE_MAX once, in ascending order, the delay line is
\* left at the configured fallback code and the scan returns a negative status.
C7_DelayAllFail ==
  (DelayScanReturned /\ AllFail(dlog)) =>
    /\ Len(dlog) = PHY_DELAY_CODE_MAX + 1
    /\ \A k \in 1..Len(dlog) : dlog[k] = <<k - 1, FALSE>>
    /\ dt_failed
    /\ dc = phy_delay_code
    /\ cnfg = 0
    /\ ret < 0

C7_Witness ==
  /\ DelayScanReturned
  /\ AllFail(dlog)
  /\ Len(dlog) = PHY_DELAY_CODE_MAX + 1
  /\ dc = phy_delay_code

\* C8 (P5, phase): when every phase probe fails, the scan has probed every
\* phase 0..MAX_PHASE_CODE once, in ascending order, the phase register is
\* left at 0 and the scan returns -EIO.
C8_PhaseAllFail ==
  (PhaseScanReturned /\ AllFail(plog)) =>
    /\ Len(plog) = MAX_PHASE_CODE + 1
    /\ \A k \in 1..Len(plog) : plog[k] = <<k - 1, FALSE>>
    /\ at_stat = 0
    /\ ret = -EIO

C8_Witness ==
  /\ PhaseScanReturned
  /\ AllFail(plog)
  /\ Len(plog) = MAX_PHASE_CODE + 1
  /\ at_stat = 0

StaticWithPhaseCode == enable_sw_tuning = FALSE /\ priv_phase_code # -1

\* C9 (P7): with software tuning disabled and a static phase code set, one
\* call of the hook disables the clock, writes the phase register once with
\* the configured code, enables the clock and returns 0; it issues no tuning
\* command and leaves the delay line, the tuned-clock flag and the
\* software-tune-enable bit unchanged.
C9_StaticBypass ==
  /\ [](StaticWithPhaseCode =>
          /\ pc \in {"idle", "L298", "L300", "L301", "L302", "L304", "done"}
          /\ dlog = <<>> /\ plog = <<>>
          /\ (pc = "done" =>
                /\ et_ops = <<OpDisable,
                              OpWrite("VENDOR_AT_SATA_R", priv_phase_code),
                              OpEnable>>
                /\ at_stat = W16(priv_phase_code)
                /\ clk
                /\ status = 0))
  /\ [][StaticWithPhaseCode =>
          UNCHANGED <<cnfg, dc, tuned_clk, sw_tune, cmd_data, cd_dirty>>]_vars

C9_Witness ==
  /\ StaticWithPhaseCode
  /\ pc = "done"
  /\ Len(et_ops) = 3
  /\ at_stat = W16(priv_phase_code)
  /\ at_stat # 0

\* C10 (P3): a passing run of width > 20 closed by a failing probe at code f
\* ends the delay scan at f with that run's midpoint committed, and the scan
\* ends before PHY_DELAY_CODE_MAX was probed only after such a run.
C10_DelayEarlyExit ==
  DelayScanReturned =>
    /\ \A r \in Runs(dlog) :
         (Width(r) > DELAY_RANGE_THRESHOLD /\ Closed(dlog, r)) =>
           /\ \A c \in Probed(dlog) : c <= r[2] + 1
           /\ dc = Mid(r)
           /\ ret = 0
    /\ (PHY_DELAY_CODE_MAX \notin Probed(dlog)) =>
         \E r \in Runs(dlog) : Width(r) > DELAY_RANGE_THRESHOLD /\ Closed(dlog, r)

\* the lines whose next statement writes a delay-line register, the phase
\* register or a tuning control bit
TuningWriteLines ==
  {"L190", "L220", "L229", "L93", "L94", "L246", "L269", "L278", "L301",
   "L309", "L313", "L316"}

\* C11: every write to the delay-line registers, to the phase register and to
\* the tuning control bits (tuned-clock flag, software-tune-enable bit) is
\* made while the card clock is disabled.
C11_WritesOnlyWhileClockGated ==
  /\ [](pc \in TuningWriteLines => ~clk)
  /\ [][(cnfg' # cnfg \/ dc' # dc \/ at_stat' # at_stat
           \/ tuned_clk' # tuned_clk \/ sw_tune' # sw_tune) => (~clk /\ ~clk')]_vars

C11_Witness ==
  /\ pc = "L93"
  /\ cpd_ret = "L222"
  /\ ~clk
  /\ dc # cpd_delay

\* C12: when the passing phases form one contiguous run [a,b] with
\* 0 < a < b < MAX_PHASE_CODE, the phase scan probes exactly the phases
\* 0, 1, ..., b+1 in that order, leaves floor((a+b)/2) in the phase register
\* and reports success.
C12_PhaseSingleInteriorRun ==
  PhaseScanReturned =>
    \A r \in Runs(plog) :
      (Runs(plog) = {r} /\ 0 < r[1] /\ r[1] < r[2] /\ r[2] < MAX_PHASE_CODE) =>
        /\ Len(plog) = r[2] + 2
        /\ \A k \in 1..Len(plog) : plog[k][1] = k - 1
        /\ at_stat = Mid(r)
        /\ ret = 0

C12_Witness ==
  /\ PhaseScanReturned
  /\ PassCodes(plog) = {2, 3, 4}
  /\ Len(plog) = 6
  /\ at_stat = 3
  /\ ret = 0

\* the lines of eswin_sdhci_sdio_delay_tuning and of the delay-line write it calls
DelayScanLines ==
  {"L188", "L189", "L190", "L191", "L192", "L194", "L196", "L207", "L216",
   "L219", "L220", "L222", "L224", "L228", "L229", "L230", "L232", "L93", "L94"}

\* the lines of eswin_sdhci_sdio_phase_code_tuning
PhaseScanLines ==
  {"L244", "L245", "L246", "L247", "L249", "L251", "L253", "L256", "L265",
   "L268", "L269", "L270", "L271", "L277", "L278", "L279", "L281"}

\* C13: in AUTO mode the phase scan starts only after the delay scan has
\* returned, which it does only after its final delay-line write; once the
\* delay scan has returned, and so after the first phase probe, no line of the
\* delay scan runs again in the same pass and no delay probe is issued.
C13_DelayBeforePhase ==
  /\ [](pc \in PhaseScanLines \cup {"L323", "L328"} =>
          /\ enable_sw_tuning = TRUE
          /\ cpd_ret \in {"L222", "L230"}
          /\ cnfg = 0
          /\ dc = W8(cpd_delay))
  /\ [](plog # <<>> => (dlog = <<>> /\ pc \in PhaseScanLines \cup {"L328"}))
  /\ [][/\ (pc' \in PhaseScanLines /\ pc \notin PhaseScanLines) => (pc = "L323" /\ ret >= 0)
        /\ (pc' = "L323") => pc \in {"L224", "L232"}
        /\ (pc' \in {"L224", "L232"}) => pc \in {"L222", "L230"}
        /\ (pc' \in DelayScanLines /\ pc \notin DelayScanLines) => (pc = "L322" /\ plog = <<>>)
        /\ (dlog' # dlog /\ dlog' # <<>>) => (pc = "L192" /\ plog = <<>>)
        /\ (plog' # plog /\ plog' # <<>>) => (pc = "L249" /\ dlog = <<>>)]_vars

C13_Witness ==
  /\ pc = "L251"
  /\ Len(plog) = 2
  /\ cpd_ret = "L230"
  /\ dc = cpd_delay
  /\ dc # FallbackDelay

\* the hook has returned a failure to its caller
PassFailed == pc = "done" /\ status < 0

\* C14 (as stated): after every pass for which the hook returns a failure,
\* whichever scan failed, the delay line holds the statically configured delay
\* code and the phase register holds 0.
C14_FallbackStateAfterFailure ==
  PassFailed => (dc = FallbackDelay /\ at_stat = 0)

\* C14 (amended): after every pass for which the hook returns a failure the
\* phase register holds 0 and the card clock runs; the delay line holds the
\* statically configured delay code when the delay scan took its failure
\* branch, and the midpoint the delay scan committed when only the phase scan
\* failed.
C14_FallbackPerScanner ==
  PassFailed =>
    /\ at_stat = 0
    /\ clk
    /\ cnfg = 0
    /\ dc = W8(cpd_delay)
    /\ IF dt_failed THEN cpd_ret = "L222" /\ dc = FallbackDelay
                    ELSE cpd_ret = "L230" /\ status = -EIO

C14_Witness ==
  /\ PassFailed
  /\ ~dt_failed
  /\ at_stat = 0
  /\ dc # FallbackDelay

\* C15: a delay scan that found no candidate and a phase scan that found no
\* window both surface -EIO to the caller of the hook; the status of the failed
\* delay scan does not depend on the status of its last probe.
C15_ExhaustedScansReturnEIO ==
  /\ (DelayScanReturned /\ dt_failed) => ret = -EIO
  /\ (PhaseScanReturned /\ AllFail(plog)) => ret = -EIO
  /\ (pc = "done" /\ dt_failed) => status = -EIO

\* the probes recorded in a log were issued for the codes 0, 1, 2, ... in
\* ascending order, each code once, and none beyond max
AscendingOnce(log, max) ==
  /\ Len(log) <= max + 1
  /\ \A k \in 1..Len(log) : log[k][1] = k - 1

\* the lines of one pass in the order of the control flow; the only backward
\* jumps are those of the two for loops (to line 188 and to line 244)
LineOrder ==
  <<"L298", "L300", "L301", "L302", "L304", "L307", "L309", "L313", "L316",
    "L318", "L320", "L322", "L188", "L189", "L190", "L191", "L192", "L194",
    "L196", "L207", "L216", "L219", "L220", "L222", "L224", "L228", "L229",
    "L230", "L232", "L323", "L244", "L245", "L246", "L247", "L249", "L251",
    "L253", "L256", "L265", "L268", "L269", "L270", "L271", "L277", "L278",
    "L279", "L281", "L328", "done">>

LineIndexOf ==
  [l \in {LineOrder[k] : k \in 1..Len(LineOrder)} |->
     CHOOSE k \in 1..Len(LineOrder) : LineOrder[k] = l]

LineIndex(l) == LineIndexOf[l]

\* position of the running hook; lines 93 and 94 lie between their call and
\* the line they return to
Position ==
  IF pc = "L93" THEN 3 * LineIndex(cpd_ret) - 2
  ELSE IF pc = "L94" THEN 3 * LineIndex(cpd_ret) - 1
  ELSE 3 * LineIndex(pc)

\* positions of the last line of each for loop and of the return of the hook
DelayLoopEnd == 3 * LineIndex("L207")

PhaseLoopEnd == 3 * LineIndex("L256")

LastPosition == 3 * Len(LineOrder)

\* measure of the work left in the pass: the iterations the two for loops can
\* still make, then the lines left
Rank ==
  LET pos == Position
      loops == (IF pos <= DelayLoopEnd THEN PHY_DELAY_CODE_MAX + 1 - i ELSE 0)
                 + (IF pos <= PhaseLoopEnd THEN MAX_PHASE_CODE + 1 - phase_code ELSE 0)
  IN loops * (LastPosition + 1) + (LastPosition - pos)

\* a called hook reaches its return
PassTerminates == (pc = "L298") ~> (pc = "done")

\* C16: every pass terminates (each step of a running pass lowers a measure
\* that never goes below 0); the delay scan issues at most
\* PHY_DELAY_CODE_MAX + 1 tuning commands and the phase scan at most
\* MAX_PHASE_CODE + 1, each for the codes 0, 1, 2, ... in ascending order with
\* no code probed twice (read after each probe's bookkeeping and at the return).
C16_TerminatesWithinProbeBound ==
  /\ [](pc \in {"L188", "L216", "L323"} => AscendingOnce(dlog, PHY_DELAY_CODE_MAX))
  /\ [](pc \in {"L244", "L265", "L328"} => AscendingOnce(plog, MAX_PHASE_CODE))
  /\ [](Running => Rank >= 0)
  /\ [][Running => Rank' < Rank]_vars

C16_Witness ==
  /\ DelayScanReturned
  /\ Len(dlog) = PHY_DELAY_CODE_MAX + 1
  /\ ~AllFail(dlog)
  /\ ~dt_failed

StaticWithoutPhaseCode == enable_sw_tuning = FALSE /\ priv_phase_code = -1

\* C17: with software tuning disabled and no static phase code, a call of the
\* hook writes no register, does not gate the card clock, issues no tuning
\* command, leaves the controller state and the policy unchanged and returns 0.
C17_StaticNoCodeIsNoOp ==
  /\ [](StaticWithoutPhaseCode =>
          /\ pc \in {"idle", "L298", "done"}
          /\ clk
          /\ et_ops = <<>>
          /\ dlog = <<>> /\ plog = <<>>
          /\ (pc = "done" => status = 0))
  /\ [][StaticWithoutPhaseCode => UNCHANGED <<hw, policy>>]_vars

C17_Witness ==
  /\ StaticWithoutPhaseCode
  /\ pc = "done"
  /\ status = 0
  /\ et_ops = <<>>

\* the lines of the delay scan's loop, lines 188-215
DelayLoopLines ==
  {"L188", "L189", "L190", "L191", "L192", "L194", "L196", "L207"}

\* C18: after every failing delay probe that does not end the scan, delay_min
\* and delay_max are both unset, also when a single code had passed before the
\* failure; a window held in delay_min, delay_max never contains a code whose
\* probe failed.
C18_DelayWindowResetOnFail ==
  /\ (pc = "L188" /\ dlog # <<>> /\ ~Passed(dlog, Len(dlog))) =>
       (delay_min = -1 /\ delay_max = -1)
  /\ (pc \in DelayLoopLines /\ delay_min # -1 /\ delay_max # -1) =>
       \A c \in delay_min..delay_max : c \in PassCodes(dlog)

\* C19: a failing phase probe met with code_min set and code_max unset unsets
\* code_min, so the window the final midpoint is computed from is a passing
\* run closed by a failing probe, starting at that run's first phase.
C19_PhasePartialWindowDiscard ==
  /\ (pc = "L244" /\ plog # <<>> /\ ~Passed(plog, Len(plog))) => code_min = -1
  /\ (pc = "L277") =>
       \E r \in Runs(plog) : Closed(plog, r) /\ code_min = r[1] /\ code_max = r[2]

\* C20: whenever the delay scan commits a code and returns 0, the committed
\* code is in 0..PHY_DELAY_CODE_MAX, its probe passed in this scan, and it is
\* the midpoint of a contiguous run of passing codes.
C20_CommittedDelayInEye ==
  (DelayScanReturned /\ ret = 0 /\ ~dt_failed) =>
    /\ dc \in 0..PHY_DELAY_CODE_MAX
    /\ dc \in PassCodes(dlog)
    /\ \E r \in Runs(dlog) : dc = Mid(r)

\* C21: whenever the phase scan returns 0, the phase it commits is in
\* 0..MAX_PHASE_CODE, passed its probe in this scan, and is the midpoint of
\* code_min and code_max with both set by passing probes (never computed from
\* an unset bound).
C21_CommittedPhaseInEye ==
  /\ (pc = "L277") =>
       /\ code_min \in PassCodes(plog)
       /\ code_max \in PassCodes(plog)
       /\ phase_code = Mid(<<code_min, code_max>>)
  /\ (PhaseScanReturned /\ ret = 0) =>
       /\ at_stat \in 0..MAX_PHASE_CODE
       /\ at_stat \in PassCodes(plog)

\* C22: in both scans a failing tuning command is followed at once by the
\* reset of the command and data logic (with its settle delay), before any
\* register write, tuning command or return; the reset lines are reached only
\* after a failing command, and a passing command goes to the window
\* bookkeeping without a reset.
C22_ResetAfterEveryFailedProbe ==
  /\ cd_dirty => pc \in {"L194", "L251"}
  /\ (pc = "L194") => (cd_dirty /\ dt_ret # 0 /\ ~Passed(dlog, Len(dlog)))
  /\ (pc = "L251") => (cd_dirty /\ pt_ret # 0 /\ ~Passed(plog, Len(plog)))
  /\ (pc = "L196") => (dt_ret # 0 /\ ~Passed(dlog, Len(dlog)))
  /\ (pc = "L253") => (pt_ret # 0 /\ ~Passed(plog, Len(plog)))
  /\ (pc = "L207") => (dt_ret = 0 /\ Passed(dlog, Len(dlog)))
  /\ (pc = "L256") => (pt_ret = 0 /\ Passed(plog, Len(plog)))

C22_Witness ==
  /\ pc = "L253"
  /\ ~cd_dirty
  /\ pt_ret # 0
  /\ Len(plog) = 3
  /\ Passed(plog, 2)

\* the hardware operations of lines 307-320, in program order
AutoPreparation ==
  <<OpDisable,
    OpWrite("SDHCI_HOST_CONTROL2", 0),
    OpWrite("VENDOR_AT_CTRL_R", 1),
    OpWrite("VENDOR_AT_SATA_R", 0),
    OpEnable,
    OpWrite("SDHCI_CMD_DATA", 0)>>

\* C23: with software tuning enabled, when the delay scan is called and for as
\* long as it runs (so at the first tuning command of the pass) the tuned-clock
\* flag is clear, the software-tune-enable bit is set, the phase register
\* holds 0 and the command/data register is cleared, these steps having been
\* made in the order clock off, clear flag, set enable bit, zero phase, clock
\* on, clear command/data.
C23_AutoPreparation ==
  (pc \in DelayScanLines \cup {"L322"}) =>
    /\ enable_sw_tuning = TRUE
    /\ ~tuned_clk
    /\ sw_tune
    /\ at_stat = 0
    /\ cmd_data = 0
    /\ et_ops = AutoPreparation
    /\ plog = <<>>

C23_Witness ==
  /\ pc = "L192"
  /\ dlog = <<>>
  /\ clk
  /\ ~tuned_clk
  /\ sw_tune
  /\ at_stat = 0
  /\ cmd_data = 0

\* C24: in every reachable state the delay-line data register holds a value
\* within the line's width (value & PHY_CLK_MAX_DELAY_MASK = value): the masked
\* scanned code, the masked committed midpoint, or the masked configured
\* code, however wide the configured value; the config register is armed
\* only during the write (lines 93, 94) and is 0 after it.
C24_DelayLineWithinWidth ==
  /\ dc \in 0..PHY_CLK_MAX_DELAY_MASK
  /\ cnfg = (IF pc \in {"L93", "L94"} THEN PHY_UPDATE_DELAY_CODE ELSE 0)
  /\ (pc = "L191") => dc = MaskDelay(i)
  /\ (pc = "L222") => dc = MaskDelay(phy_delay_code)
  /\ (pc = "L230") => dc = MaskDelay(delay)
  /\ (pc \in {"idle", "L298"} /\ prev = <<>>) => dc = MaskDelay(phy_delay_code)

C24_Witness ==
  /\ pc = "L222"
  /\ phy_delay_code > PHY_CLK_MAX_DELAY_MASK
  /\ dc = MaskDelay(phy_delay_code)
  /\ cnfg = 0

(* ------------------------------------------------------------------ *)
(* C25: probe consistency                                              *)
(* ------------------------------------------------------------------ *)
\* the delay code the delay scan programmed last (lines 221, 229): the
\* argument, masked, of this caller's last call of config_phy_delay
DelayLeftByScan == cpd_delay

\* the registers at a tuning command are those the issuing scanner programmed
ProbeConsistent ==
  /\ (pc = "L192") => (clk /\ dc = W8(MaskDelay(i)) /\ at_stat = 0)
  /\ (pc = "L249") => (clk /\ at_stat = W16(phase_code) /\ dc = W8(DelayLeftByScan))

\* C25: as long as no second caller has entered the hook, at every tuning
\* command of the delay scan for code i the clock runs, the delay line holds
\* i masked and the phase register holds 0, and at every tuning command of the
\* phase scan for phase p the clock runs, the phase register holds p and the
\* delay line holds the code the delay scan left (its committed midpoint).
C25_ProbeConsistentWhenSerialised == (other_pc = "none") => ProbeConsistent

C25_Witness ==
  /\ pc = "L249" /\ other_pc = "none"
  /\ phase_code = 2 /\ at_stat = 2
  /\ dc = cpd_delay /\ dc = 11 /\ dc # MaskDelay(phy_delay_code)

\* with a second caller interleaved, states are reachable under SpecShared in
\* which the first caller's tuning command goes out with the clock gated off,
\* with the second caller's delay code, or with the second caller's phase
InterleavedClockOff == pc = "L192" /\ other_pc # "none" /\ ~clk

InterleavedForeignDelay == pc = "L192" /\ other_pc # "none" /\ clk /\ i > 0 /\ dc = 0

InterleavedForeignPhase ==
  pc = "L249" /\ other_pc # "none" /\ clk /\ phase_code > 0 /\ at_stat = 0

(* ------------------------------------------------------------------ *)
(* C26: tie-break of the delay scan                                    *)
(* ------------------------------------------------------------------ *)
\* C26: during a delay scan the recorded best width (delay_range) never
\* decreases, and changes only to the width of a window with both ends set
\* that is strictly larger; and when the passing delay codes form exactly
\* two runs of equal width (at most DELAY_RANGE_THRESHOLD), each closed by a
\* failing probe, the delay line is left at the midpoint of the first run.
C26_DelayTieBreakFirstRun ==
  /\ [][(pc \in DelayLoopLines /\ pc' \in DelayLoopLines) =>
          /\ delay_range' >= delay_range
          /\ (delay_range' # delay_range) =>
               /\ delay_min # -1 /\ delay_max # -1
               /\ delay_range' = delay_max - delay_min
               /\ delay_range' > delay_range]_vars
  /\ []((DelayScanReturned /\ Cardinality(Runs(dlog)) = 2) =>
          \A r1, r2 \in Runs(dlog) :
            (/\ r1[1] < r2[1]
             /\ Width(r1) = Width(r2)
             /\ Width(r1) <= DELAY_RANGE_THRESHOLD
             /\ Closed(dlog, r1)
             /\ Closed(dlog, r2)) => dc = Mid(r1))

(* ------------------------------------------------------------------ *)
(* C27: static phase code                                              *)
(* ------------------------------------------------------------------ *)
\* the value of the phase_code property, as its two 16-bit halves
PhaseProp == CHOOSE v \in phase_prop : TRUE

\* C27: with software tuning disabled and a phase_code property of value v
\* present, the private phase code is not the "unset" sentinel -1, and when
\* the hook has returned the phase register holds v, unaltered.
C27_StaticPhaseHonoured ==
  (enable_sw_tuning = FALSE /\ phase_prop # {}) =>
    /\ priv_phase_code # -1
    /\ (pc = "done") => (<<0, at_stat>> = PhaseProp)

(* ------------------------------------------------------------------ *)
(* C28: retune                                                         *)
(* ------------------------------------------------------------------ *)
\* what the caller sees of a pass: its status and the committed registers
PassOutcome == <<status, dc, at_stat, tuned_clk, sw_tune>>

\* C28: with software tuning enabled and a card whose answer depends only on
\* the programmed delay and phase, a pass that follows another pass returns
\* the same status and leaves the same delay, phase and control registers as
\* the pass before it; each scan starts with no window and no candidate
\* (all of its locals at their initial values); and no step changes the
\* policy (enable flag, static phase code, static delay code).
C28_RetuneIdempotent ==
  /\ []((enable_sw_tuning /\ eye.fixed /\ pc = "done" /\ prev # <<>>) =>
          PassOutcome = prev)
  /\ []((pc = "L188" /\ dlog = <<>>) =>
          (i = 0 /\ delay = -1 /\ delay_min = -1 /\ delay_max = -1 /\ delay_range = -1))
  /\ []((pc = "L244" /\ plog = <<>>) =>
          (phase_code = 0 /\ code_min = -1 /\ code_max = -1))
  /\ [][policy' = policy]_vars

C28_Witness ==
  /\ enable_sw_tuning /\ eye.fixed /\ pc = "done" /\ prev # <<>>
  /\ status = 0 /\ at_stat # 0 /\ dc = 5 /\ dc # FallbackDelay
  /\ PassOutcome = prev

(* ------------------------------------------------------------------ *)
(* C29: clock balance                                                  *)
(* ------------------------------------------------------------------ *)
\* the lines that call eswin_sdhci_disable_card_clk
ClockDisableLines == {"L189", "L219", "L228", "L245", "L268", "L277", "L300", "L307"}

\* the lines that call eswin_sdhci_enable_card_clk
ClockEnableLines == {"L191", "L222", "L230", "L247", "L270", "L279", "L302", "L318"}

\* the lines between a call of disable and the matching call of enable
ClockGatedLines ==
  ClockEnableLines \cup
    {"L190", "L220", "L229", "L93", "L94", "L246", "L269", "L278", "L301",
     "L309", "L313", "L316"}

\* C29: the card clock being enabled at entry, every call of
\* disable_card_clk finds the clock enabled and every call of enable_card_clk
\* finds it disabled (the calls alternate, starting with disable; the clock
\* is off exactly between a disable and the next enable); the clock is
\* enabled whenever a tuning command is about to be sent, and whenever the
\* hook has returned.
C29_ClockBalance ==
  /\ (pc \in ClockDisableLines) => clk
  /\ (pc \in ClockEnableLines) => ~clk
  /\ clk <=> (pc \notin ClockGatedLines)
  /\ (pc \in {"L192", "L249"}) => clk
  /\ (pc \in {"idle", "done"}) => clk

C29_Witness ==
  /\ pc = "done" /\ clk /\ enable_sw_tuning
  /\ status = -EIO /\ ~dt_failed
  /\ Len(et_ops) > 0

(* ------------------------------------------------------------------ *)
(* C30: the delay line during the phase scan                           *)
(* ------------------------------------------------------------------ *)
\* the lines from the return of the delay scan's last call of
\* config_phy_delay to the return of the hook
AfterFinalDelayWrite ==
  {"L222", "L224", "L230", "L232", "L323", "L328"} \cup PhaseScanLines

\* C30: no step taken from the delay scan's final write of the delay line to
\* the return of the hook (the rest of the delay scan, the phase scan with
\* its probes, recovery resets and fallback) changes the delay-line data or
\* config register, so the delay line keeps the value of that write; and no
\* step of the delay scan, and no recovery reset, changes the phase register.
C30_DelayLineStableDuringPhaseScan ==
  /\ [][(pc \in AfterFinalDelayWrite) => (dc' = dc /\ cnfg' = cnfg)]_vars
  /\ [][(pc \in DelayScanLines \cup {"L93", "L94", "L194", "L251"}) => (at_stat' = at_stat)]_vars
  /\ [](pc \in AfterFinalDelayWrite => (dc = W8(cpd_delay) /\ cnfg = 0))

C30_Witness ==
  /\ pc = "L253" /\ ~cd_dirty
  /\ Len(plog) = 2 /\ at_stat = 1
  /\ dc = cpd_delay /\ dc # FallbackDelay /\ dc # 1

====
